---- MODULE Spec2Model ----
(***************************************************************************)
(* Model of potential-giggle (src/src/main.rs): the `check` subcommand of  *)
(* main and CheckClient::check_certificate, one step per statement that    *)
(* touches the clock, the network or the return value.                     *)
(*                                                                         *)
(* Time is counted in ticks, SubsecsPerSec ticks to the second, so that    *)
(* round_subsecs(0) and timestamp() are real conversions.  A DateTime is   *)
(* its number of ticks since the Unix epoch.                               *)
(***************************************************************************)
EXTENDS Integers, Sequences, FiniteSets, TLC

\* ---------------------------------------------------------------- bounds
SubsecsPerSec == 2      \* resolution of the modelled clock
MaxArgs == 2            \* domain names on the command line
MaxChain == 2           \* certificates in the peer's chain
MaxTicks == 2           \* clock ticks elapsing during one run
FirstHalfDay == 3       \* earliest notAfter offered, in half days since epoch
LastHalfDay == 8        \* latest notAfter offered, in half days since epoch
ClockDays == 3          \* day on which the program is started

\* ------------------------------------------------------------- constants
SECS_PER_DAY == 86400

\* ------------------------------------------------------------ input sets
Names == {"example.com", "bad name"}

\* webpki::DNSNameRef::try_from_ascii_str accepts the name (line 81)
IsValidDNSName(name) == name = "example.com"

ArgLists == UNION {[1..n -> Names] : n \in 0..MaxArgs}

HalfDayTicks == (SECS_PER_DAY \div 2) * SubsecsPerSec

\* instants a certificate may carry as notAfter; odd half days also carry
\* a sub-second part
NotAfterTimes ==
    {k * HalfDayTicks + (k % SubsecsPerSec) : k \in FirstHalfDay..LastHalfDay}

\* a DER blob of the chain: either x509_parser rejects it or it parses to a
\* certificate with the given validity end
Certificates ==
    {[parses |-> FALSE, not_after |-> 0]}
        \cup {[parses |-> TRUE, not_after |-> t] : t \in NotAfterTimes}

Chains == UNION {[1..n -> Certificates] : n \in 0..MaxChain}

\* Option<Vec<Certificate>> of get_peer_certificates()
NoCertificates == [tag |-> "None", certs |-> <<>>]
Some(chain) == [tag |-> "Some", certs |-> chain]

StartClocks == {ClockDays * SECS_PER_DAY * SubsecsPerSec + j : j \in 0..(SubsecsPerSec - 1)}

\* ------------------------------------------------------- chrono helpers
\* i64 division of Rust: truncates toward zero
TruncDiv(a, b) == IF a >= 0 THEN a \div b ELSE -((-a) \div b)

\* DateTime::timestamp(): whole seconds since the epoch
timestamp(dt) == dt \div SubsecsPerSec

\* Utc.timestamp(secs, 0)
Utc_timestamp(secs) == secs * SubsecsPerSec

\* SubsecRound::round_subsecs(0): to the nearest second, half rounds up
round_subsecs(dt) ==
    LET delta_down == dt % SubsecsPerSec
        delta_up == SubsecsPerSec - delta_down
    IN  IF delta_down = 0 THEN dt
        ELSE IF delta_up <= delta_down THEN dt + delta_up
        ELSE dt - delta_down

\* Duration::num_seconds(): whole seconds, truncated toward zero
num_seconds(duration) == TruncDiv(duration, SubsecsPerSec)

\* a num_days that rounds toward minus infinity
num_days_floor(duration) == num_seconds(duration) \div SECS_PER_DAY

\* Duration::num_days() = num_seconds() / SECS_PER_DAY in i64
num_days(duration) == TruncDiv(num_seconds(duration), SECS_PER_DAY)

\* ----------------------------------------------------------- CheckResult
\* a "not ok" result that keeps a derived field
CheckResult_new_stale(domain, at) ==
    [ok |-> FALSE, checked_at |-> at, domain_name |-> domain,
     days |-> 0, not_after |-> at, seconds |-> 0]

\* CheckResult::new (lines 179-188): the zero-filled "not ok" result
CheckResult_new(domain, at) ==
    [ok |-> FALSE, checked_at |-> at, domain_name |-> domain,
     days |-> 0, not_after |-> Utc_timestamp(0), seconds |-> 0]

\* a result whose ok also looks at the sign of the duration
CheckResult_ok_strict(domain, at, cert_not_after) ==
    LET not_after == Utc_timestamp(timestamp(cert_not_after))
        duration == not_after - at
    IN  [ok |-> duration >= 0, checked_at |-> at,
         days |-> num_days(duration),
         domain_name |-> domain, not_after |-> not_after,
         seconds |-> num_seconds(duration)]

\* the struct literal of lines 104-114
CheckResult_ok(domain, at, cert_not_after) ==
    LET not_after == Utc_timestamp(timestamp(cert_not_after))
        duration == not_after - at
    IN  [ok |-> TRUE, checked_at |-> at, days |-> num_days(duration),
         domain_name |-> domain, not_after |-> not_after,
         seconds |-> num_seconds(duration)]

\* CheckResult::to_json (lines 190-198): not_after is left out
to_json(r) ==
    [ok |-> r.ok, days |-> r.days, domain_name |-> r.domain_name,
     checked_at |-> [rfc3339 |-> timestamp(r.checked_at)],
     seconds |-> r.seconds]

\* Display for CheckResult (lines 141-167)
fmt(r) ==
    IF r.ok
    THEN [mark |-> "[v]", domain_name |-> r.domain_name,
          text |-> "expires in", days |-> r.days, seconds |-> r.seconds]
    ELSE [mark |-> "[x]", domain_name |-> r.domain_name,
          text |-> "is expired", days |-> 0, seconds |-> 0]

\* certificates.first() in place of certificates.last()
SelectCertificate_first(certificates) == certificates[1]

\* certificates.last() (line 97)
SelectCertificate(certificates) == certificates[Len(certificates)]

\* the end-entity certificate rustls verifies during the handshake is the
\* first of the chain; webpki rejects it when the time is past its notAfter
LeafExpired(certs, now) ==
    /\ certs.tag = "Some"
    /\ Len(certs.certs) > 0
    /\ certs.certs[1].parses
    /\ timestamp(now) > timestamp(certs.certs[1].not_after)

None == [tag |-> "None"]
Ok(r) == [tag |-> "Ok", result |-> r]
Err(e) == [tag |-> "Err", error |-> e]

\* ----------------------------------------------------------------- state
VARIABLES
    pc,                 \* position in main / check_certificate
    subcommand,         \* the `check` subcommand was given
    json,               \* --json was given
    args,               \* the domain names given to `check`
    clock,              \* the wall clock, in ticks
    ticks,              \* ticks elapsed since the start
    domain_name,        \* parameter of check_certificate
    started_at,         \* the Utc::now() reading of line 79
    checked_at,         \* local of check_certificate
    sess_new,           \* ClientSession::new calls
    connects,           \* TcpStream::connect calls
    open_sess,          \* TLS sessions alive
    open_socks,         \* TCP sockets alive
    writes,             \* tls.write calls
    probe,              \* outcome of tls.write: "none", "ok", "err"
    handshake_at,       \* clock when the handshake ran
    presented,          \* chain the peer presented in the handshake
    certificate,        \* the selected chain element
    ret,                \* value returned by check_certificate
    checked,            \* domains handed to check_certificate, in order
    stdout              \* lines printed by main

vars == <<pc, subcommand, json, args, clock, ticks, domain_name, started_at,
          checked_at, sess_new, connects, open_sess, open_socks, writes,
          probe, handshake_at, presented, certificate, ret, checked,
          stdout>>

io == <<sess_new, connects, open_sess, open_socks, writes>>
peer == <<probe, handshake_at, presented, certificate>>
env == <<subcommand, json, args, clock, ticks>>

Init ==
    /\ pc = "main"
    /\ subcommand \in BOOLEAN
    /\ json \in BOOLEAN
    /\ args \in ArgLists
    /\ (~subcommand => args = <<>>)
    /\ clock \in StartClocks
    /\ ticks = 0
    /\ domain_name = ""
    /\ started_at = 0
    /\ checked_at = 0
    /\ sess_new = 0
    /\ connects = 0
    /\ open_sess = 0
    /\ open_socks = 0
    /\ writes = 0
    /\ probe = "none"
    /\ handshake_at = 0
    /\ presented = NoCertificates
    /\ certificate = [parses |-> FALSE, not_after |-> 0]
    /\ ret = None
    /\ checked = <<>>
    /\ stdout = <<>>

\* a return that keeps the socket alive
Return_leak(v) ==
    /\ ret' = v
    /\ pc' = "returned"
    /\ open_sess' = 0
    /\ UNCHANGED open_socks

\* leaving check_certificate with value v: sess and sock go out of scope
Return(v) ==
    /\ ret' = v
    /\ pc' = "returned"
    /\ open_sess' = 0
    /\ open_socks' = 0

\* time passes while the program runs
Tick ==
    /\ pc \notin {"exit", "panic"}
    /\ ticks < MaxTicks
    /\ clock' = clock + 1
    /\ ticks' = ticks + 1
    /\ UNCHANGED <<pc, subcommand, json, args, domain_name, started_at,
                   checked_at, ret, checked, stdout>>
    /\ UNCHANGED io
    /\ UNCHANGED peer

\* main, lines 44-47: value_of yields the first value of the argument
MainCall ==
    /\ pc = "main"
    /\ IF ~subcommand
       THEN pc' = "exit" /\ UNCHANGED <<domain_name, checked>>
       ELSE IF args = <<>>
       THEN pc' = "panic" /\ UNCHANGED <<domain_name, checked>>
       ELSE /\ pc' = "now"
            /\ domain_name' = args[1]
            /\ checked' = Append(checked, args[1])
    /\ UNCHANGED <<started_at, checked_at, ret, stdout>>
    /\ UNCHANGED env
    /\ UNCHANGED io
    /\ UNCHANGED peer

\* line 79
ReadClock ==
    /\ pc = "now"
    /\ started_at' = clock
    /\ checked_at' = round_subsecs(clock)
    /\ pc' = "name"
    /\ UNCHANGED <<domain_name, ret, checked, stdout>>
    /\ UNCHANGED env
    /\ UNCHANGED io
    /\ UNCHANGED peer

\* the name is handed to the session without its error being returned
ParseName_unchecked ==
    /\ pc = "name"
    /\ sess_new' = sess_new + 1
    /\ open_sess' = open_sess + 1
    /\ pc' = "connect"
    /\ UNCHANGED <<ret, open_socks>>
    /\ UNCHANGED <<domain_name, started_at, checked_at, checked, stdout,
                   connects, writes>>
    /\ UNCHANGED env
    /\ UNCHANGED peer

\* lines 81-82
ParseName ==
    /\ pc = "name"
    /\ IF IsValidDNSName(domain_name)
       THEN /\ sess_new' = sess_new + 1
            /\ open_sess' = open_sess + 1
            /\ pc' = "connect"
            /\ UNCHANGED <<ret, open_socks>>
       ELSE /\ Return(Err("InvalidDNSNameError"))
            /\ UNCHANGED sess_new
    /\ UNCHANGED <<domain_name, started_at, checked_at, checked, stdout,
                   connects, writes>>
    /\ UNCHANGED env
    /\ UNCHANGED peer

\* line 83: one connection attempt, its failure is returned with `?`
Connect ==
    /\ pc = "connect"
    /\ connects' = connects + 1
    /\ \E connected \in BOOLEAN :
          IF connected
          THEN /\ open_socks' = open_socks + 1
               /\ pc' = "write"
               /\ UNCHANGED <<ret, open_sess>>
          ELSE Return(Err("io::Error"))
    /\ UNCHANGED <<domain_name, started_at, checked_at, checked, stdout,
                   sess_new, writes>>
    /\ UNCHANGED env
    /\ UNCHANGED peer

\* the write error is returned with `?`
ProbeWrite_propagate ==
    /\ pc = "write"
    /\ writes' = writes + 1
    /\ handshake_at' = clock
    /\ \E certs \in {NoCertificates} \cup {Some(c) : c \in Chains},
          written \in BOOLEAN :
          /\ written => ~LeafExpired(certs, clock)
          /\ presented' = certs
          /\ IF written
             THEN /\ probe' = "ok"
                  /\ pc' = "certs"
                  /\ UNCHANGED <<ret, open_sess, open_socks>>
             ELSE /\ probe' = "err"
                  /\ Return(Err("io::Error"))
    /\ UNCHANGED <<domain_name, started_at, checked_at, checked, stdout,
                   sess_new, connects, certificate>>
    /\ UNCHANGED env

\* lines 84-89: the first write drives the handshake, in which the peer
\* presents its chain; a write error becomes a "not ok" result
ProbeWrite ==
    /\ pc = "write"
    /\ writes' = writes + 1
    /\ handshake_at' = clock
    /\ \E certs \in {NoCertificates} \cup {Some(c) : c \in Chains},
          written \in BOOLEAN :
          /\ written => ~LeafExpired(certs, clock)
          /\ presented' = certs
          /\ IF written
             THEN /\ probe' = "ok"
                  /\ pc' = "certs"
                  /\ UNCHANGED <<ret, open_sess, open_socks>>
             ELSE /\ probe' = "err"
                  /\ Return(Ok(CheckResult_new(domain_name, checked_at)))
    /\ UNCHANGED <<domain_name, started_at, checked_at, checked, stdout,
                   sess_new, connects, certificate>>
    /\ UNCHANGED env

\* a missing or empty chain is folded into the "not ok" result
GetCertificates_soft ==
    /\ pc = "certs"
    /\ IF presented.tag = "None" \/ Len(presented.certs) = 0
       THEN /\ Return(Ok(CheckResult_new(domain_name, checked_at)))
            /\ UNCHANGED certificate
       ELSE /\ certificate' = SelectCertificate(presented.certs)
            /\ pc' = "parse"
            /\ UNCHANGED <<ret, open_sess, open_socks>>
    /\ UNCHANGED <<domain_name, started_at, checked_at, checked, stdout,
                   sess_new, connects, writes, probe, handshake_at,
                   presented>>
    /\ UNCHANGED env

\* lines 91-98: a missing or empty chain is returned as an error
GetCertificates ==
    /\ pc = "certs"
    /\ IF presented.tag = "None"
       THEN /\ Return(Err("no peer certificates found"))
            /\ UNCHANGED certificate
       ELSE IF Len(presented.certs) = 0
       THEN /\ Return(Err("no certificate found"))
            /\ UNCHANGED certificate
       ELSE /\ certificate' = SelectCertificate(presented.certs)
            /\ pc' = "parse"
            /\ UNCHANGED <<ret, open_sess, open_socks>>
    /\ UNCHANGED <<domain_name, started_at, checked_at, checked, stdout,
                   sess_new, connects, writes, probe, handshake_at,
                   presented>>
    /\ UNCHANGED env

\* the clock is read again when the result is built
ParseCertificate_now ==
    /\ pc = "parse"
    /\ IF certificate.parses
       THEN Return(Ok(CheckResult_ok(domain_name, round_subsecs(clock),
                                     certificate.not_after)))
       ELSE Return(Ok(CheckResult_new(domain_name, round_subsecs(clock))))
    /\ UNCHANGED <<domain_name, started_at, checked_at, checked, stdout,
                   sess_new, connects, writes>>
    /\ UNCHANGED env
    /\ UNCHANGED peer

\* lines 100-114
ParseCertificate ==
    /\ pc = "parse"
    /\ IF certificate.parses
       THEN Return(Ok(CheckResult_ok(domain_name, checked_at,
                                     certificate.not_after)))
       ELSE Return(Ok(CheckResult_new(domain_name, checked_at)))
    /\ UNCHANGED <<domain_name, started_at, checked_at, checked, stdout,
                   sess_new, connects, writes>>
    /\ UNCHANGED env
    /\ UNCHANGED peer

\* main, lines 47-60: one line is printed for the one check made
MainPrint ==
    /\ pc = "returned"
    /\ stdout' = Append(stdout,
                    IF ret.tag = "Ok"
                    THEN IF json
                         THEN [json |-> to_json(ret.result)]
                         ELSE [line |-> fmt(ret.result)]
                    ELSE [debug |-> ret.error])
    /\ pc' = "exit"
    /\ UNCHANGED <<domain_name, started_at, checked_at, ret, checked>>
    /\ UNCHANGED env
    /\ UNCHANGED io
    /\ UNCHANGED peer

Next ==
    \/ Tick
    \/ MainCall
    \/ ReadClock
    \/ ParseName
    \/ Connect
    \/ ProbeWrite
    \/ GetCertificates
    \/ ParseCertificate
    \/ MainPrint

Spec == Init /\ [][Next]_vars

\* ------------------------------------------------------------ properties
Returned == pc \in {"returned", "exit"} /\ checked # <<>>
HasResult == Returned /\ ret.tag = "Ok"
HasChain == presented.tag = "Some" /\ Len(presented.certs) > 0
LastPresented == presented.certs[Len(presented.certs)]

\* C1: every returned CheckResult with ok = false has days = 0,
\* seconds = 0 and not_after equal to the zero timestamp, on the probe
\* write failure path and on the certificate parse failure path alike.
C1_FailedResultIsZeroFilled ==
    (HasResult /\ ~ret.result.ok) =>
        /\ ret.result.days = 0
        /\ ret.result.seconds = 0
        /\ ret.result.not_after = Utc_timestamp(0)

C1_Witness ==
    /\ HasResult
    /\ ~ret.result.ok
    /\ probe = "ok"
    /\ ~certificate.parses
    /\ ret.result.checked_at # Utc_timestamp(0)

\* C2 as stated: for every returned CheckResult with ok = true, negative
\* durations included, not_after = checked_at + seconds and
\* days = floor(seconds / 86400).
C2_DaysAreFloor ==
    (HasResult /\ ret.result.ok) =>
        /\ ret.result.not_after
              = ret.result.checked_at + ret.result.seconds * SubsecsPerSec
        /\ ret.result.days = ret.result.seconds \div SECS_PER_DAY

\* C2 amended: for every returned CheckResult with ok = true,
\* not_after = checked_at + seconds and days is seconds / 86400 rounded
\* toward zero (the floor for a non-negative duration, the ceiling for a
\* negative one).
C2_DaysAreTruncated ==
    (HasResult /\ ret.result.ok) =>
        /\ ret.result.not_after
              = ret.result.checked_at + ret.result.seconds * SubsecsPerSec
        /\ (ret.result.seconds >= 0) =>
              /\ ret.result.days * SECS_PER_DAY <= ret.result.seconds
              /\ ret.result.seconds < (ret.result.days + 1) * SECS_PER_DAY
        /\ (ret.result.seconds < 0) =>
              /\ (ret.result.days - 1) * SECS_PER_DAY < ret.result.seconds
              /\ ret.result.seconds <= ret.result.days * SECS_PER_DAY

C2_Witness ==
    /\ HasResult
    /\ ret.result.ok
    /\ ret.result.seconds < 0
    /\ ret.result.seconds % SECS_PER_DAY # 0
    /\ ret.result.days # ret.result.seconds \div SECS_PER_DAY

\* the leaf the handshake verified was past its notAfter
PresentedLeafExpired == probe # "none" /\ LeafExpired(presented, handshake_at)

\* C3 as stated: a returned CheckResult has ok = true iff a certificate was
\* retrieved, parsed, and its not_after is not earlier than checked_at; a
\* host whose certificate is expired yields ok = false with the zero
\* not_after.
C3_OkIffValid ==
    HasResult =>
        /\ ret.result.ok <=>
              /\ probe = "ok"
              /\ HasChain
              /\ LastPresented.parses
              /\ Utc_timestamp(timestamp(LastPresented.not_after))
                    >= ret.result.checked_at
        /\ PresentedLeafExpired =>
              ~ret.result.ok /\ ret.result.not_after = Utc_timestamp(0)

\* C3 amended: a returned CheckResult has ok = true iff the probe write
\* succeeded and the selected (last) certificate of the chain parsed,
\* whether or not its not_after is earlier than checked_at; a host whose
\* leaf certificate is expired at the handshake yields ok = false with the
\* zero not_after.
C3_OkIffParsed ==
    HasResult =>
        /\ ret.result.ok <=>
              /\ probe = "ok"
              /\ HasChain
              /\ LastPresented.parses
        /\ PresentedLeafExpired =>
              ~ret.result.ok /\ ret.result.not_after = Utc_timestamp(0)

C3_Witness ==
    /\ HasResult
    /\ ret.result.ok
    /\ ret.result.not_after < ret.result.checked_at

\* C4: when the domain name is not a valid DNS name, check_certificate
\* fails with an error and, in that invocation, no TCP connection is
\* attempted or opened and no write is made.
C4_InvalidNameFailsBeforeIO ==
    (checked # <<>> /\ ~IsValidDNSName(checked[1])) =>
        /\ connects = 0
        /\ open_socks = 0
        /\ writes = 0
        /\ Returned => ret.tag = "Err"

C4_Witness ==
    /\ Returned
    /\ ~IsValidDNSName(checked[1])
    /\ ret = Err("InvalidDNSNameError")

ConnectFailed == connects > 0 /\ probe = "none"

\* C5: an invalid name, a failed TCP connection, and a successful probe
\* write followed by an absent or empty peer chain each make
\* check_certificate return an error, never a CheckResult.
C5_HardErrors ==
    (/\ Returned
     /\ \/ ~IsValidDNSName(checked[1])
        \/ ConnectFailed
        \/ probe = "ok" /\ ~HasChain)
        => ret.tag = "Err"

C5_Witness ==
    /\ Returned
    /\ probe = "ok"
    /\ presented = Some(<<>>)
    /\ ret.tag = "Err"

\* C6: with the TCP connection established, a failed probe write or a
\* certificate that fails to parse never yields an error: the return value
\* is a CheckResult with ok = false, the requested domain_name and the
\* checked_at captured at the start.
C6_SoftFailures ==
    (/\ Returned
     /\ \/ probe = "err"
        \/ probe = "ok" /\ HasChain /\ ~LastPresented.parses)
        => /\ ret.tag = "Ok"
           /\ ~ret.result.ok
           /\ ret.result.domain_name = checked[1]
           /\ ret.result.checked_at = round_subsecs(started_at)

C6_Witness ==
    /\ Returned
    /\ probe = "err"
    /\ ret.tag = "Ok"
    /\ ~ret.result.ok

\* C7: the checked_at of every returned CheckResult is the clock reading
\* (rounded to the second) taken at the start of the operation, before
\* name validation and any network I/O, is the same in every later step,
\* and is greater than the zero timestamp.
C7_CheckedAtIsStartTime ==
    /\ pc = "name" => sess_new = 0 /\ connects = 0 /\ writes = 0
    /\ (checked # <<>> /\ pc # "now") =>
          checked_at = round_subsecs(started_at)
    /\ HasResult =>
          /\ ret.result.checked_at = round_subsecs(started_at)
          /\ ret.result.checked_at > Utc_timestamp(0)

C7_Witness ==
    /\ HasResult
    /\ ret.result.ok
    /\ round_subsecs(clock) # ret.result.checked_at

\* C8: every domain name given to the check subcommand is checked, in the
\* order given, and exactly one result is rendered per domain.
C8_EveryDomainChecked ==
    (pc = "exit" /\ subcommand) =>
        /\ checked = args
        /\ Len(stdout) = Len(args)

\* C9: the certificate evaluated is the last of a non-empty chain: when it
\* parses, not_after is its notAfter truncated to whole seconds whatever
\* the other certificates are; when it does not parse, the result is
\* ok = false even if other certificates parse.
C9_LastCertificateEvaluated ==
    (Returned /\ probe = "ok" /\ HasChain) =>
        /\ ret.tag = "Ok"
        /\ IF LastPresented.parses
           THEN /\ ret.result.ok
                /\ ret.result.not_after % SubsecsPerSec = 0
                /\ ret.result.not_after <= LastPresented.not_after
                /\ LastPresented.not_after
                      < ret.result.not_after + SubsecsPerSec
           ELSE ~ret.result.ok

C9_Witness ==
    /\ Returned
    /\ probe = "ok"
    /\ Len(presented.certs) >= 2
    /\ presented.certs[1].parses
    /\ ~LastPresented.parses
    /\ ret.tag = "Ok"
    /\ ~ret.result.ok

\* C10: one invocation creates at most one TLS session and one TCP
\* socket, attempts the connection once, and leaves no socket or session
\* open when it has returned, on any exit path.
C10_OneSocketReleased ==
    /\ sess_new <= 1
    /\ connects <= 1
    /\ open_sess <= 1
    /\ open_socks <= 1
    /\ Returned => open_sess = 0 /\ open_socks = 0

C10_Witness ==
    /\ Returned
    /\ connects = 1
    /\ sess_new = 1
    /\ probe = "ok"
    /\ ret.tag = "Ok"
    /\ ret.result.ok

====
